---- MODULE Spec2Model ----
(***************************************************************************)
(* A model of pkg/sbom/generator/cyclonedx/cyclonedx.go: the CycloneDX     *)
(* SBOM generator (Generate, GenerateIndex, archImageComponent and         *)
(* renderDoc).                                                             *)
(*                                                                         *)
(* Text that the code slices, concatenates or places in an identifier is   *)
(* a sequence of tokens (a token is one character, or an atom such as      *)
(* "sha256" that no operation of the code looks inside); the empty Go      *)
(* string is the empty sequence.  Text the code only copies (descriptions, *)
(* type tags, qualifier values) is a TLA+ string.                          *)
(***************************************************************************)
EXTENDS Integers, Sequences, FiniteSets, TLC

VARIABLES
    opts,   \* the *options.Options snapshot the caller passes
    pc,     \* "ready", or the entry point that has returned
    doc,    \* the Document handed to renderDoc, NoDoc when none was
    err,    \* the error the entry point returned, "nil" when none
    file,   \* the destination at path
    comp    \* the Component archImageComponent returned, NoComp when not called

vars == <<opts, pc, doc, err, file, comp>>

----------------------------------------------------------------------------
(* Bounds of the model *)

MaxPkgs == 2
MaxDeps == 2
MaxDepLen == 3
MaxImages == 2

----------------------------------------------------------------------------
(* strings.ContainsRune, strings.IndexAny and slicing, on token sequences *)

ContainsRune(s, r) == \E i \in 1..Len(s) : s[i] = r

\* 0-based index of the first token of s that is in chars, -1 when none is
IndexAny(s, chars) ==
    LET hits == {i \in 1..Len(s) : s[i] \in chars}
    IN  IF hits = {} THEN -1
        ELSE (CHOOSE i \in hits : \A j \in hits : i <= j) - 1

\* dep[:i]
Prefix(s, i) == SubSeq(s, 1, i)

\* the cutset of strings.IndexAny(dep, " ~<>=/!")
OperatorChars == {" ", "~", "<", ">", "=", "/", "!"}

----------------------------------------------------------------------------
(* Go maps of qualifiers and purl.QualifiersFromMap, which sorts the keys *)

EmptyMap == << >>

Put(m, k, v) == [x \in (DOMAIN m) \cup {k} |-> IF x = k THEN v ELSE m[x]]

\* the keys the code uses, in Go's string order
SortedKeys == <<"arch", "mediaType", "os", "repository_url">>

InMapTest(m, k) == k \in DOMAIN m

QualifiersFromMap(m) ==
    LET keys == SelectSeq(SortedKeys, LAMBDA k : InMapTest(m, k))
    IN  [i \in 1..Len(keys) |-> <<keys[i], m[keys[i]]>>]

RECURSIVE QualifierTokens(_)
QualifierTokens(qs) ==
    IF qs = << >> THEN << >>
    ELSE <<qs[1][1], "=", qs[1][2]>>
         \o (IF Len(qs) > 1 THEN <<"&">> ELSE << >>)
         \o QualifierTokens(Tail(qs))

\* purl.NewPackageURL(type, namespace, name, version, qualifiers, "").String()
\* name and version are token sequences; escaping is the identity on the
\* alphabets of the model.
NewPackageURL(type, namespace, name, version, qualifiers) ==
    <<"pkg:", type, "/">>
    \o (IF namespace # "" THEN <<namespace, "/">> ELSE << >>)
    \o name
    \o (IF version # << >> THEN <<"@">> \o version ELSE << >>)
    \o (IF qualifiers # << >> THEN <<"?">> \o QualifierTokens(qualifiers) ELSE << >>)

----------------------------------------------------------------------------
(* Collaborators of the generator: architectures, digests, references *)

\* types.Architecture.String(): the OCI name of the architecture
ArchString(arch) == arch

\* types.Architecture.ToAPK(): the APK name of the architecture
ToAPK(arch) ==
    CASE arch = "amd64" -> "x86_64"
      [] arch = "arm64" -> "aarch64"
      [] OTHER -> arch

\* types.Architecture.ToOCIPlatform(): the platform, whose OS is linux
ToOCIPlatform(arch) == [OS |-> "linux", Architecture |-> arch]

\* v1.Hash.String(): "<algorithm>:<hex>"
HashString(h) == <<h.Algorithm, ":", h.Hex>>

\* the characters a repository name may hold
RepositoryChars == {"a", "p", "-"}

\* name.ParseReference(s) for a reference with neither registry nor tag:
\* it fails on the empty string and on a character no repository may hold,
\* and ref.Context().RepositoryStr() puts the default namespace before the name
ParseReference(s) ==
    IF s # << >> /\ \A i \in 1..Len(s) : s[i] \in RepositoryChars
    THEN [err |-> FALSE, RepositoryStr |-> <<"library/">> \o s]
    ELSE [err |-> TRUE, RepositoryStr |-> << >>]

----------------------------------------------------------------------------
(* The document types *)

NoDoc == [BOMFormat |-> "none"]
NoComp == [Type |-> "none"]

MkComponent(bomRef, type, name, version, description, purl, hashes, licenses, components) ==
    [BOMRef |-> bomRef, Type |-> type, Name |-> name, Version |-> version,
     Description |-> description, PUrl |-> purl, Hashes |-> hashes,
     ExternalReferences |-> << >>, Licenses |-> licenses,
     Components |-> components]

----------------------------------------------------------------------------
(* Generate, lines 44-163 *)

\* mm := map[string]string{"arch": opts.ImageInfo.Arch.ToAPK()}
PkgQualifiers(o) == QualifiersFromMap(Put(EmptyMap, "arch", ToAPK(o.Arch)))

\* the identifier of a package: BOMRef, PUrl and Dependency.Ref
PkgPurl(o, pkg) ==
    NewPackageURL("apk", o.OSID, pkg.Name, pkg.Version, PkgQualifiers(o))

PkgComponent(o, pkg) ==
    MkComponent(PkgPurl(o, pkg), "operating-system", pkg.Name, pkg.Version,
                pkg.Description, PkgPurl(o, pkg), << >>,
                <<[Expression |-> pkg.License]>>, << >>)

\* one turn of the loop over pkg.Dependencies, with the colon test and the
\* cut in the other order
DepRefCutFirst(o, dep) ==
    LET i == IndexAny(dep, OperatorChars)
        d == IF i > -1 THEN Prefix(dep, i) ELSE dep
    IN  IF ContainsRune(d, ":") \/ d = << >> THEN << >>
        ELSE <<NewPackageURL("apk", o.OSID, d, << >>, PkgQualifiers(o))>>

\* one turn of the loop over pkg.Dependencies: what it appends to depRefs
DepRef(o, dep) ==
    IF ContainsRune(dep, ":") THEN << >>
    ELSE LET i == IndexAny(dep, OperatorChars)
             d == IF i > -1 THEN Prefix(dep, i) ELSE dep
         IN  IF d = << >> THEN << >>
             ELSE <<NewPackageURL("apk", o.OSID, d, << >>, PkgQualifiers(o))>>

\* the loop over pkg.Dependencies: depRefs
RECURSIVE DepRefs(_, _)
DepRefs(o, deps) ==
    IF deps = << >> THEN << >>
    ELSE DepRef(o, Head(deps)) \o DepRefs(o, Tail(deps))

\* the Dependency of a package, its Ref built with a blank version
PkgDependencyNoVersion(o, pkg) ==
    [Ref |-> NewPackageURL("apk", o.OSID, pkg.Name, << >>, PkgQualifiers(o)),
     DependsOn |-> DepRefs(o, pkg.Dependencies)]

\* d := Dependency{Ref: ..., DependsOn: depRefs}
PkgDependency(o, pkg) ==
    [Ref |-> PkgPurl(o, pkg), DependsOn |-> DepRefs(o, pkg.Dependencies)]

\* the loop over opts.Packages
pkgComponents(o) == [i \in 1..Len(o.Packages) |-> PkgComponent(o, o.Packages[i])]

pkgDependencies(o) == [i \in 1..Len(o.Packages) |-> PkgDependency(o, o.Packages[i])]

\* mmMain of Generate
GenerateQualifiers(o) ==
    LET m0 == EmptyMap
        m1 == IF o.Repository # "" THEN Put(m0, "repository_url", o.Repository) ELSE m0
        m2 == IF ArchString(o.Arch) # ""
              THEN Put(m1, "arch", ToOCIPlatform(o.Arch).Architecture) ELSE m1
    IN  QualifiersFromMap(m2)

LayerPurl(o) == NewPackageURL("oci", "", o.Name, o.LayerDigest, GenerateQualifiers(o))

layerComponent(o) ==
    MkComponent(LayerPurl(o), "operating-system", o.OSName, o.OSVersion,
                <<"apko OS layer">>, LayerPurl(o), << >>, << >>, pkgComponents(o))

ImagePurl(o) == NewPackageURL("oci", "", o.Name, o.ImageDigest, GenerateQualifiers(o))

imageComponent(o) ==
    MkComponent(ImagePurl(o), "container", << >>, << >>,
                <<"apko container image">>, ImagePurl(o), << >>, << >>,
                <<layerComponent(o)>>)

\* the root chosen with the image digest empty, whatever the digest is
GenerateRootLayerOnly(o) == <<layerComponent(o)>>

\* the image beside the layer instead of around it
GenerateRootBoth(o) ==
    IF o.ImageDigest # << >> THEN <<imageComponent(o), layerComponent(o)>>
    ELSE <<layerComponent(o)>>

\* bom.Components
GenerateRoot(o) ==
    IF o.ImageDigest # << >> THEN <<imageComponent(o)>> ELSE <<layerComponent(o)>>

GenerateDoc(o) ==
    [BOMFormat |-> "CycloneDX", SpecVersion |-> "1.4", Version |-> 1,
     Components |-> GenerateRoot(o), Dependencies |-> pkgDependencies(o)]

----------------------------------------------------------------------------
(* archImageComponent, lines 277-331 *)

\* repoName, then imageRepoName: a reference that does not parse is not an error
ArchImageRepoName(o) ==
    LET ref == ParseReference(o.Name)
        repoName == IF o.Name # << >> /\ ~ref.err THEN ref.RepositoryStr ELSE << >>
    IN  IF repoName # << >> THEN repoName ELSE <<"image">>

\* mmMain of archImageComponent
ArchImageQualifiers(o) ==
    LET m0 == EmptyMap
        m1 == IF o.Repository # "" THEN Put(m0, "repository_url", o.Repository) ELSE m0
        m2 == IF ArchString(o.Arch) # ""
              THEN Put(m1, "arch", ToOCIPlatform(o.Arch).Architecture) ELSE m1
        m3 == IF ToOCIPlatform(o.Arch).OS # ""
              THEN Put(m2, "os", ToOCIPlatform(o.Arch).OS) ELSE m2
        m4 == IF o.IndexMediaType # ""
              THEN Put(m3, "mediaType", o.IndexMediaType) ELSE m3
    IN  QualifiersFromMap(m4)

ArchImagePurl(o, info) ==
    NewPackageURL("oci", "", ArchImageRepoName(o), HashString(info.Digest),
                  ArchImageQualifiers(o))

\* the Hashes of a component: one SHA-256 entry with the digest's hex
Sha256Hashes(h) == <<[Algorithm |-> "SHA-256", Value |-> h.Hex]>>

archImageComponent(o, info) ==
    MkComponent(ArchImagePurl(o, info), "container", HashString(info.Digest),
                HashString(info.Digest),
                <<"apko image for ", ToOCIPlatform(info.Arch).OS, "/", ArchString(info.Arch)>>,
                ArchImagePurl(o, info), Sha256Hashes(info.Digest), << >>, << >>)

----------------------------------------------------------------------------
(* GenerateIndex, lines 208-274 *)

\* GenerateIndex going on whatever name.ParseReference returns
IndexParseNeverFails(o) == FALSE

\* whether GenerateIndex returns "parsing image reference"
IndexParseFails(o) == o.Name # << >> /\ ParseReference(o.Name).err

\* repoName, once the reference has parsed or is not configured
IndexRepoName(o) ==
    IF o.Name # << >> THEN ParseReference(o.Name).RepositoryStr ELSE <<"index">>

\* indexComponentName with the separator whatever the name is
IndexComponentNameAlwaysAt(o) ==
    IndexRepoName(o) \o <<"@">> \o HashString(o.IndexDigest)

\* indexComponentName
IndexComponentName(o) ==
    IF o.Name # << >>
    THEN IndexRepoName(o) \o <<"@">> \o HashString(o.IndexDigest)
    ELSE HashString(o.IndexDigest)

\* mmMain of GenerateIndex
IndexQualifiers(o) ==
    LET m0 == EmptyMap
        m1 == IF o.Repository # "" THEN Put(m0, "repository_url", o.Repository) ELSE m0
        m2 == IF ArchString(o.Arch) # ""
              THEN Put(m1, "arch", ToOCIPlatform(o.Arch).Architecture) ELSE m1
        m3 == IF o.IndexMediaType # ""
              THEN Put(m2, "mediaType", o.IndexMediaType) ELSE m2
    IN  QualifiersFromMap(m3)

\* purlString of GenerateIndex: the version is opts.ImageInfo.ImageDigest
IndexPurl(o) ==
    NewPackageURL("oci", "", IndexRepoName(o), o.ImageDigest, IndexQualifiers(o))

\* the loop over opts.ImageInfo.Images, in reverse
IndexChildrenReversed(o) ==
    [i \in 1..Len(o.Images) |-> archImageComponent(o, o.Images[Len(o.Images) + 1 - i])]

\* the loop over opts.ImageInfo.Images
IndexChildren(o) ==
    [i \in 1..Len(o.Images) |-> archImageComponent(o, o.Images[i])]

indexComponent(o) ==
    MkComponent(IndexPurl(o), "container", IndexComponentName(o),
                <<o.IndexDigest.Hex>>, <<"Multi-arch image index">>, IndexPurl(o),
                Sha256Hashes(o.IndexDigest), << >>, IndexChildren(o))

GenerateIndexDoc(o) ==
    [BOMFormat |-> "CycloneDX", SpecVersion |-> "1.4", Version |-> 1,
     Components |-> <<indexComponent(o)>>, Dependencies |-> << >>]

----------------------------------------------------------------------------
(* renderDoc, lines 334-348 *)

\* what os.Create and the encoder can do
RenderOutcomes == {"ok", "create fails", "encode fails"}

\* the destination after renderDoc
renderDocFile(f, outcome) ==
    CASE outcome = "create fails" -> f
      [] outcome = "encode fails" -> "truncated"
      [] OTHER -> "written"

\* the error of the entry point that called renderDoc
renderDocErr(outcome, wrap) ==
    CASE outcome = "create fails" -> <<wrap, "opening SBOM path for writing">>
      [] outcome = "encode fails" -> <<wrap, "encoding spdx sbom">>
      [] OTHER -> <<"nil">>

----------------------------------------------------------------------------
(* The inputs: the snapshots a caller passes *)

SeqsUpTo(S, n) == UNION {[1..k -> S] : k \in 0..n}

SeqsFromTo(S, m, n) == UNION {[1..k -> S] : k \in m..n}

\* digests as the strings of ImageInfo.LayerDigest and ImageInfo.ImageDigest
D1 == <<"sha256", ":", "aa">>
D2 == <<"sha256", ":", "bb">>

\* digests as the v1.Hash of ImageInfo.IndexDigest and ArchImageInfo.Digest
Hashes == {[Algorithm |-> "sha256", Hex |-> "aa"], [Algorithm |-> "sha256", Hex |-> "bb"]}

ArchImageInfos == [Arch : {"amd64", "arm64", "riscv64"}, Digest : Hashes]

\* the image lists of an index: at most one image for an architecture
ImageLists ==
    {s \in SeqsUpTo(ArchImageInfos, MaxImages) :
        \A i, j \in 1..Len(s) : i # j => s[i].Arch # s[j].Arch}

\* ImageInfo.Name: not configured, a reference that parses, one that does not
ImageNames == {<< >>, <<"a", "p", "p">>, <<"A", "p", "p">>}

\* raw dependency strings: every string of at most MaxDepLen characters
DepChars == {"a", ":"} \cup OperatorChars
RawDeps == SeqsUpTo(DepChars, MaxDepLen)

\* the raw strings of the longer dependency lists
ShortDeps == SeqsUpTo({"a", ":", ">"}, 2)

\* the dependency lists of a package on its own
DepLists ==
    SeqsUpTo(RawDeps, 1) \cup SeqsFromTo(ShortDeps, 2, MaxDeps)

\* the dependency lists of a package among others
FewDepLists == {<< >>, <<<<"a">>>>, <<<<"a", "a", ">", "=", "1">>>>, <<<<"a", ":", "a">>>>}

Pkg(n, v, deps) ==
    [Name |-> n, Version |-> v, Description |-> <<"a package">>,
     License |-> "MIT", Dependencies |-> deps]

PkgNames == {<<"a">>, <<"a", "a">>}
PkgVersions == {<<"1.0">>, <<"2.0">>}

Opts(pkgs, name, repository, arch, layer, image, index, mediaType, images) ==
    [OSID |-> "alpine", OSName |-> <<"Alpine Linux">>, OSVersion |-> <<"3.16">>,
     Packages |-> pkgs, Name |-> name, Repository |-> repository, Arch |-> arch,
     LayerDigest |-> layer, ImageDigest |-> image, IndexDigest |-> index,
     IndexMediaType |-> mediaType, Images |-> images]

AnyHash == CHOOSE h \in Hashes : h.Hex = "aa"

\* one package, every dependency list
OnePackageInputs ==
    {Opts(<<Pkg(<<"a">>, <<"1.0">>, deps)>>, <<"a", "p", "p">>, "", "amd64",
          D1, image, AnyHash, "", << >>) :
        deps \in DepLists, image \in {<< >>, D2}}

\* several packages, every layer and image digest
PackagesInputs ==
    {Opts(pkgs, name, "", arch, D1, image, AnyHash, "", << >>) :
        pkgs \in SeqsUpTo({Pkg(n, v, deps) : n \in PkgNames, v \in PkgVersions,
                                             deps \in FewDepLists}, MaxPkgs),
        name \in {<< >>, <<"a", "p", "p">>},
        arch \in {"amd64"},
        image \in {<< >>, D1, D2}}

\* an index of per-architecture images
IndexInputs ==
    {Opts(<< >>, name, repository, arch, D1, image, index, mediaType, images) :
        name \in ImageNames,
        repository \in {"", "https://dl.example/alpine"},
        arch \in {"", "amd64"},
        image \in {<< >>, D1, D2},
        index \in Hashes,
        mediaType \in {"", "application/vnd.oci.image.index.v1+json"},
        images \in ImageLists}

Inputs == OnePackageInputs \cup PackagesInputs \cup IndexInputs

----------------------------------------------------------------------------
(* The state machine: one call of an entry point on a snapshot *)

Nil == <<"nil">>

Init ==
    /\ opts \in Inputs
    /\ pc = "ready"
    /\ doc = NoDoc
    /\ err = Nil
    /\ file \in {"absent", "stale"}
    /\ comp = NoComp

\* Generate(opts, path), with renderDoc
Generate ==
    /\ pc = "ready"
    /\ \E outcome \in RenderOutcomes :
         /\ doc' = GenerateDoc(opts)
         /\ file' = renderDocFile(file, outcome)
         /\ err' = renderDocErr(outcome, "rendering sbom to disk")
    /\ pc' = "Generate"
    /\ UNCHANGED <<opts, comp>>

\* GenerateIndex(opts, path), with renderDoc
GenerateIndex ==
    /\ pc = "ready"
    /\ IF IndexParseFails(opts)
       THEN /\ err' = <<"parsing image reference">>
            /\ doc' = NoDoc
            /\ file' = file
       ELSE \E outcome \in RenderOutcomes :
              /\ doc' = GenerateIndexDoc(opts)
              /\ file' = renderDocFile(file, outcome)
              /\ err' = renderDocErr(outcome, "rendering SBOM")
    /\ pc' = "GenerateIndex"
    /\ UNCHANGED <<opts, comp>>

\* archImageComponent(opts, info), called on its own
ArchImageComponent ==
    /\ pc = "ready"
    /\ \E info \in ArchImageInfos : comp' = archImageComponent(opts, info)
    /\ pc' = "archImageComponent"
    /\ UNCHANGED <<opts, doc, err, file>>

Next == Generate \/ GenerateIndex \/ ArchImageComponent

Spec == Init /\ [][Next]_vars

----------------------------------------------------------------------------
(* Reading a document *)

Range(s) == {s[i] : i \in 1..Len(s)}

Generated == pc = "Generate"

Indexed == pc = "GenerateIndex" /\ doc.BOMFormat # "none"

Root == doc.Components[1]

IsLayer(c) == c.Type = "operating-system" /\ c.Description = <<"apko OS layer">>

IsImage(c) == c.Type = "container" /\ c.Description = <<"apko container image">>

IsIndex(c) == c.Type = "container" /\ c.Description = <<"Multi-arch image index">>

\* the layer Component of a document of Generate
Layer == IF IsLayer(Root) THEN Root ELSE Root.Components[1]

\* the identifiers of a list of Components and of all below them, in preorder
RECURSIVE TreeIds(_)
TreeIds(cs) ==
    IF cs = << >> THEN << >>
    ELSE <<cs[1].BOMRef>> \o TreeIds(cs[1].Components) \o TreeIds(Tail(cs))

StartsWith(s, prefix) ==
    Len(s) >= Len(prefix) /\ SubSeq(s, 1, Len(prefix)) = prefix

----------------------------------------------------------------------------
(* C1: the dependency filter *)

\* the bare name of a raw string: its longest prefix free of the characters
\* space ~ < > = / !
BareName(raw) ==
    LET clean == {k \in 0..Len(raw) :
                    \A j \in 1..k : raw[j] \notin {" ", "~", "<", ">", "=", "/", "!"}}
        k == CHOOSE m \in clean : \A n \in clean : n <= m
    IN  SubSeq(raw, 1, k)

YieldsEdge(raw) == ":" \notin Range(raw) /\ BareName(raw) # << >>

\* the identifier of a bare name: blank version, the namespace and the arch
\* qualifier of the owning package
BareNameId(bare) ==
    <<"pkg:", "apk", "/", opts.OSID, "/">> \o bare
    \o <<"?", "arch", "=", ToAPK(opts.Arch)>>

ExpectedDependsOn(raws) ==
    LET kept == SelectSeq(raws, YieldsEdge)
    IN  [i \in 1..Len(kept) |-> BareNameId(BareName(kept[i]))]

\* C1: after Generate, the depends-on list of every package is the raw
\* dependency strings in input order, without deduplication, less the strings
\* that contain ':' and those whose bare name is empty, each replaced by the
\* identifier of its bare name.
C1_DependencyFilter ==
    Generated =>
        \A i \in 1..Len(opts.Packages) :
            doc.Dependencies[i].DependsOn
                = ExpectedDependsOn(opts.Packages[i].Dependencies)

\* a package with the dependencies "a>" and "a": two equal edges, in order
C1_Witness ==
    /\ Generated
    /\ Len(opts.Packages) = 1
    /\ opts.Packages[1].Dependencies = <<<<"a", ">">>, <<"a">>>>
    /\ doc.Dependencies[1].DependsOn
         = <<BareNameId(<<"a">>), BareNameId(<<"a">>)>>

----------------------------------------------------------------------------
(* C5: the root of a document of Generate *)

\* C5: after Generate on N packages there is one root and N Dependencies;
\* with no image digest the root is the layer, with N children; with an image
\* digest the root is the image, whose one child is the layer with N children.
C5_ScenarioSelection ==
    Generated =>
        LET N == Len(opts.Packages)
        IN  /\ Len(doc.Components) = 1
            /\ Len(doc.Dependencies) = N
            /\ IF opts.ImageDigest = << >>
               THEN /\ IsLayer(Root)
                    /\ Len(Root.Components) = N
               ELSE /\ IsImage(Root)
                    /\ Len(Root.Components) = 1
                    /\ IsLayer(Root.Components[1])
                    /\ Len(Root.Components[1].Components) = N

\* two packages under a layer under an image
C5_Witness ==
    /\ Generated
    /\ opts.ImageDigest # << >>
    /\ Len(opts.Packages) = 2
    /\ IsImage(Root)
    /\ Len(Root.Components[1].Components) = 2

----------------------------------------------------------------------------
(* C9: the envelope *)

\* C9: every document handed to the renderer is CycloneDX 1.4, version 1,
\* with exactly one root: the layer or the image for Generate, the index for
\* GenerateIndex.
C9_Envelope ==
    doc.BOMFormat # "none" =>
        /\ doc.BOMFormat = "CycloneDX"
        /\ doc.SpecVersion = "1.4"
        /\ doc.Version = 1
        /\ Len(doc.Components) = 1
        /\ pc = "Generate" => (IsLayer(Root) \/ IsImage(Root)) /\ ~IsIndex(Root)
        /\ pc = "GenerateIndex" => IsIndex(Root) /\ ~IsLayer(Root) /\ ~IsImage(Root)

\* no package and an image digest: still one root, the image
C9_Witness ==
    /\ Generated
    /\ opts.Packages = << >>
    /\ opts.ImageDigest # << >>
    /\ Len(doc.Components) = 1
    /\ file = "written"

----------------------------------------------------------------------------
(* C10: Dependencies and package Components are aligned *)

AllFiltered(raws) ==
    \A k \in 1..Len(raws) :
        \/ ":" \in Range(raws[k])
        \/ raws[k] = << >>
        \/ raws[k][1] \in {" ", "~", "<", ">", "=", "/", "!"}

\* C10: after Generate, the i-th Dependency's ref is the identifier of the
\* i-th child of the layer, which is the i-th package of the input; a package
\* whose raw dependencies are all filtered out has a Dependency with nothing
\* in depends-on.
C10_Aligned ==
    Generated =>
        /\ Len(doc.Dependencies) = Len(Layer.Components)
        /\ Len(doc.Dependencies) = Len(opts.Packages)
        /\ \A i \in 1..Len(doc.Dependencies) :
              /\ doc.Dependencies[i].Ref = Layer.Components[i].BOMRef
              /\ Layer.Components[i].Name = opts.Packages[i].Name
              /\ Layer.Components[i].Version = opts.Packages[i].Version
              /\ AllFiltered(opts.Packages[i].Dependencies)
                    => doc.Dependencies[i].DependsOn = << >>

\* two packages, the second with one dependency, which is filtered out
C10_Witness ==
    /\ Generated
    /\ Len(opts.Packages) = 2
    /\ opts.Packages[1].Name # opts.Packages[2].Name
    /\ opts.Packages[2].Dependencies = <<<<"a", ":", "a">>>>
    /\ doc.Dependencies[2].Ref = Layer.Components[2].BOMRef
    /\ doc.Dependencies[2].DependsOn = << >>

----------------------------------------------------------------------------
(* C6: the children of the index *)

\* C6: after GenerateIndex on a name that is empty or parses, the root is the
\* index with one child per image of the input, in the input's order, each
\* with the one SHA-256 hash of its image's digest hex; the index has the one
\* SHA-256 hash of the index digest hex, and there are no Dependencies.
C6_IndexFanOut ==
    (pc = "GenerateIndex" /\ ~(opts.Name # << >> /\ ParseReference(opts.Name).err)) =>
        /\ Len(doc.Components) = 1
        /\ IsIndex(Root)
        /\ Len(Root.Components) = Len(opts.Images)
        /\ \A i \in 1..Len(opts.Images) :
              Root.Components[i].Hashes
                  = <<[Algorithm |-> "SHA-256", Value |-> opts.Images[i].Digest.Hex]>>
        /\ Root.Hashes = <<[Algorithm |-> "SHA-256", Value |-> opts.IndexDigest.Hex]>>
        /\ doc.Dependencies = << >>

\* two images with different digests, the second digest that of the index
C6_Witness ==
    /\ Indexed
    /\ Len(opts.Images) = 2
    /\ opts.Images[1].Digest # opts.Images[2].Digest
    /\ opts.Images[2].Digest = opts.IndexDigest
    /\ Root.Components[1].Hashes[1].Value = opts.Images[1].Digest.Hex
    /\ Root.Components[2].Hashes[1].Value = opts.Images[2].Digest.Hex

----------------------------------------------------------------------------
(* C7: a name that does not parse *)

NameUnparseable == opts.Name # << >> /\ ParseReference(opts.Name).err

\* C7: with a configured name that does not parse, GenerateIndex returns the
\* parse failure, has built no document and has left the destination as it
\* was; archImageComponent returns a Component under the repository name
\* "image" and no failure.
C7_ParseFailure ==
    /\ (pc = "GenerateIndex" /\ NameUnparseable) =>
          /\ err = <<"parsing image reference">>
          /\ doc.BOMFormat = "none"
          /\ file \in {"absent", "stale"}
    /\ (pc = "archImageComponent" /\ NameUnparseable) =>
          /\ comp.Type = "container"
          /\ StartsWith(comp.BOMRef, <<"pkg:", "oci", "/", "image", "@">>)
          /\ err = Nil

\* GenerateIndex has failed on the name "App", with two images to describe
C7_Witness ==
    /\ pc = "GenerateIndex"
    /\ opts.Name = <<"A", "p", "p">>
    /\ Len(opts.Images) = 2
    /\ err = <<"parsing image reference">>
    /\ file = "stale"

----------------------------------------------------------------------------
(* C8: the repository names *)

\* C8: GenerateIndex with no name configured does not fail on parsing, names
\* the index "index" in its identifier and by its bare digest, with no '@',
\* and every child "image"; with a name that parses, the index is named
\* <repo>@<digest> and every child's identifier has the parsed repository.
C8_Fallback ==
    pc = "GenerateIndex" =>
        /\ opts.Name = << >> =>
              /\ err # <<"parsing image reference">>
              /\ StartsWith(Root.BOMRef, <<"pkg:", "oci", "/", "index">>)
              /\ Root.Name = <<opts.IndexDigest.Algorithm, ":", opts.IndexDigest.Hex>>
              /\ "@" \notin Range(Root.Name)
              /\ \A i \in 1..Len(Root.Components) :
                    StartsWith(Root.Components[i].BOMRef,
                               <<"pkg:", "oci", "/", "image", "@">>)
        /\ (opts.Name # << >> /\ ~ParseReference(opts.Name).err) =>
              LET repo == ParseReference(opts.Name).RepositoryStr
              IN  /\ Root.Name = repo \o <<"@", opts.IndexDigest.Algorithm, ":",
                                           opts.IndexDigest.Hex>>
                  /\ \A i \in 1..Len(Root.Components) :
                        StartsWith(Root.Components[i].BOMRef,
                                   <<"pkg:", "oci", "/">> \o repo \o <<"@">>)

\* no name, one image: the index is named by its digest
C8_Witness ==
    /\ Indexed
    /\ opts.Name = << >>
    /\ Len(opts.Images) = 1
    /\ Root.Name = <<"sha256", ":", "bb">>
    /\ err = Nil

----------------------------------------------------------------------------
(* C2: the targets of the edges *)

\* C2: after Generate, every depends-on string that names a package of the
\* input is the identifier of that package's Component.
C2_EdgesReachComponents ==
    Generated =>
        \A i \in 1..Len(doc.Dependencies) :
            \A k \in 1..Len(doc.Dependencies[i].DependsOn) :
                \A t \in 1..Len(opts.Packages) :
                    LET edge == doc.Dependencies[i].DependsOn[k]
                    IN  edge = BareNameId(opts.Packages[t].Name) =>
                            edge = Layer.Components[t].BOMRef

----------------------------------------------------------------------------
(* C3: the identifiers of a document *)

DistinctPackages ==
    \A i, j \in 1..Len(opts.Packages) :
        i # j => \/ opts.Packages[i].Name # opts.Packages[j].Name
                 \/ opts.Packages[i].Version # opts.Packages[j].Version

\* C3: in a document of Generate or GenerateIndex on packages with pairwise
\* distinct (name, version), no two Components have the same identifier.
C3_IdentifiersUnique ==
    (doc.BOMFormat # "none" /\ DistinctPackages) =>
        LET ids == TreeIds(doc.Components)
        IN  \A i, j \in 1..Len(ids) : i # j => ids[i] # ids[j]

----------------------------------------------------------------------------
(* C4: the identifier of the index *)

\* the identifier of the index GenerateIndex builds for a snapshot
IndexIdOf(o) == GenerateIndexDoc(o).Components[1].BOMRef

\* C4: the identifier of the index changes with the index digest, the rest
\* of the input being the same, and does not change with the image digest.
C4_IndexIdFromIndexDigest ==
    Indexed =>
        /\ Root.BOMRef = Root.PUrl
        /\ \A h \in Hashes :
              h # opts.IndexDigest =>
                  IndexIdOf([opts EXCEPT !.IndexDigest = h]) # Root.BOMRef
        /\ \A d \in {<< >>, D1, D2} :
              IndexIdOf([opts EXCEPT !.ImageDigest = d]) = Root.BOMRef

====
